---- MODULE Spec2Model ----
(***************************************************************************)
(* kieserchart: the CSV-to-chart pipeline of src/kieserchart.js.           *)
(*                                                                         *)
(* Text is a sequence of one-character strings, so that the character-wise *)
(* operations of the code (regex replace, trim, charAt, parseFloat,        *)
(* localeCompare) are computed and not assumed.  A JavaScript value is a   *)
(* record tagged by t: "null", "undefined", "str" (field s), "num" (the    *)
(* exact rational n/d in lowest terms), "nan".  Floating-point rounding is *)
(* not modelled: arithmetic is exact.                                      *)
(***************************************************************************)
EXTENDS Integers, Sequences, FiniteSets, TLC

VARIABLES
    chartData,  \* kieserchart.js:19   the held series, original column order
    checked,    \* the state of #group-machines-checkbox
    rendered,   \* the array last bound to the chart (drawGraph's valueLines)
    drawn,      \* whether the last event called drawGraph
    notice,     \* the alert shown by the last event: "none", "parse", "empty"
    event,      \* the last event: "init", "load", "toggle"
    input,      \* the results object of the last parse completion
    val,        \* the argument of a toNumberOrNull call
    result      \* its return value ("pending" before the call returns)

vars == <<chartData, checked, rendered, drawn, notice, event, input, val, result>>

(***************************************************************************)
(* Bounds of the model.                                                    *)
(***************************************************************************)
MaxLen == 3           \* length of the generated toNumberOrNull texts
MaxRows == 2          \* data rows of a generated table
MaxSessionRows == 1   \* data rows of a table loaded in a session
MaxGroup == 10        \* machines of one group in a generated one-group table

(***************************************************************************)
(* JavaScript values.                                                      *)
(***************************************************************************)
Null == [t |-> "null"]
Undefined == [t |-> "undefined"]
NaN == [t |-> "nan"]
Str(s) == [t |-> "str", s |-> s]

RECURSIVE GCD(_, _)
GCD(a, b) == IF b = 0 THEN a ELSE GCD(b, a % b)

\* The number n/d (d > 0, n >= 0), in lowest terms.
Num(n, d) == LET g == GCD(n, d) IN [t |-> "num", n |-> n \div g, d |-> d \div g]

NumAdd(a, b) == Num(a.n * b.d + b.n * a.d, a.d * b.d)
NumDiv(a, k) == Num(a.n, a.d * k)

(***************************************************************************)
(* Characters and text.                                                    *)
(***************************************************************************)
Digits == <<"0", "1", "2", "3", "4", "5", "6", "7", "8", "9">>
Lower == <<"a", "b", "c", "d", "e", "f", "g", "h", "i", "j", "k", "l", "m",
           "n", "o", "p", "q", "r", "s", "t", "u", "v", "w", "x", "y", "z">>
Upper == <<"A", "B", "C", "D", "E", "F", "G", "H", "I", "J", "K", "L", "M",
           "N", "O", "P", "Q", "R", "S", "T", "U", "V", "W", "X", "Y", "Z">>

IndexOf(c, alphabet) ==
    IF \E i \in 1..Len(alphabet) : alphabet[i] = c
    THEN CHOOSE i \in 1..Len(alphabet) : alphabet[i] = c
    ELSE 0

\* the characters of the model's texts, and for each its digit value (-1 for none)
\* and its two cases
Chars ==
    {Digits[i] : i \in 1..10} \cup {Lower[i] : i \in 1..26} \cup {Upper[i] : i \in 1..26}
    \cup {" ", ".", ",", "/"}

CharTable ==
    [c \in Chars |->
        [digit |-> IndexOf(c, Digits) - 1,
         upper |-> IF IndexOf(c, Lower) > 0 THEN Upper[IndexOf(c, Lower)] ELSE c,
         lower |-> IF IndexOf(c, Upper) > 0 THEN Lower[IndexOf(c, Upper)] ELSE c,
         letter |-> IF IndexOf(c, Lower) > 0 THEN IndexOf(c, Lower) ELSE IndexOf(c, Upper)]]

IsDigit(c) == CharTable[c].digit >= 0
DigitVal(c) == CharTable[c].digit
ToUpper(c) == CharTable[c].upper
ToLower(c) == CharTable[c].lower

\* seq[i] with the 0-based index of the code
At(seq, i) == seq[i + 1]

RECURSIVE Keep(_, _)
\* s.replace(/[^...]/g, ''): the characters of s that are in the set keep
Keep(s, keep) ==
    IF s = <<>> THEN <<>>
    ELSE IF Head(s) \in keep THEN <<Head(s)>> \o Keep(Tail(s), keep)
    ELSE Keep(Tail(s), keep)

RECURSIVE TrimLeft(_)
TrimLeft(s) == IF s # <<>> /\ Head(s) = " " THEN TrimLeft(Tail(s)) ELSE s

RECURSIVE TrimRight(_)
TrimRight(s) ==
    IF s # <<>> /\ s[Len(s)] = " " THEN TrimRight(SubSeq(s, 1, Len(s) - 1)) ELSE s

\* String.prototype.trim
Trim(s) == TrimRight(TrimLeft(s))

RECURSIVE ReplaceFirst(_, _, _)
\* s.replace(from, to) with a string pattern: only the first occurrence
ReplaceFirst(s, from, to) ==
    IF s = <<>> THEN <<>>
    ELSE IF Head(s) = from THEN <<to>> \o Tail(s)
    ELSE <<Head(s)>> \o ReplaceFirst(Tail(s), from, to)

RECURSIVE TakeDigits(_)
\* the longest prefix of s made of digits
TakeDigits(s) ==
    IF s # <<>> /\ IsDigit(Head(s)) THEN <<Head(s)>> \o TakeDigits(Tail(s)) ELSE <<>>

RECURSIVE DigitsVal(_)
DigitsVal(ds) ==
    IF ds = <<>> THEN 0 ELSE 10 * DigitsVal(SubSeq(ds, 1, Len(ds) - 1)) + DigitVal(ds[Len(ds)])

RECURSIVE Pow10(_)
Pow10(k) == IF k = 0 THEN 1 ELSE 10 * Pow10(k - 1)

\* parseFloat on a text of digits, periods and commas: the longest prefix that is a
\* decimal literal (digits, then optionally a period and digits); NaN without a digit.
parseFloat(s) ==
    LET ip == TakeDigits(s)
        rest == SubSeq(s, Len(ip) + 1, Len(s))
        fp == IF rest # <<>> /\ Head(rest) = "." THEN TakeDigits(Tail(rest)) ELSE <<>>
    IN  IF ip = <<>> /\ fp = <<>> THEN NaN
        ELSE Num(DigitsVal(ip \o fp), Pow10(Len(fp)))

\* [0-9.,]
NumericChars == {Digits[i] : i \in 1..10} \cup {".", ","}

\* kieserchart.js:49-62
toNumberOrNull(v) ==
    IF v.t \in {"null", "undefined"} THEN Null
    ELSE IF v.t = "num" THEN v
    ELSE LET s == Trim(Keep(v.s, NumericChars))
         IN  IF s = <<>> THEN Null
             ELSE LET n == parseFloat(ReplaceFirst(s, ",", "."))
                  IN  IF n.t = "nan" THEN Null ELSE n

(***************************************************************************)
(* Header classification and series construction (transform, lines 90-139) *)
(***************************************************************************)
\* name.replace(/ lbs$/i, '').trim()
StripLbs(name) ==
    LET n == Len(name)
    IN  IF n >= 4 /\ name[n - 3] = " " /\ ToLower(name[n - 2]) = "l"
           /\ ToLower(name[n - 1]) = "b" /\ ToLower(name[n]) = "s"
        THEN Trim(SubSeq(name, 1, n - 4))
        ELSE Trim(name)

RECURSIVE ScanHeaders(_, _)
\* the loop of lines 97-109, from index i on
ScanHeaders(headers, i) ==
    IF i >= Len(headers) THEN <<>>
    ELSE LET header == Trim(At(headers, i))
         IN  IF header # <<>>
             THEN <<[name |-> header, index |-> i]>>
                  \o ScanHeaders(headers,
                        IF i + 1 < Len(headers) /\ Trim(At(headers, i + 1)) = <<>>
                        THEN i + 2 ELSE i + 1)
             ELSE ScanHeaders(headers, i + 1)

machineColumns(headers) == ScanHeaders(headers, 1)

\* row[i]: a string, or undefined beyond the end of a ragged row
Cell(row, i) == IF i < Len(row) THEN Str(At(row, i)) ELSE Undefined

\* the truthiness of a cell
Truthy(v) == v.t = "str" /\ v.s # <<>>

\* PointOf dropping the whole row when the cell after the machine's does not parse
PointOf_needsNext(row, machine, headers) ==
    LET dateString == Cell(row, 0)
        y == toNumberOrNull(Cell(row, machine.index))
        secIndex == machine.index + 1
    IN  IF Truthy(dateString) /\ y.t = "num"
           /\ toNumberOrNull(Cell(row, secIndex)).t = "num"
        THEN [x |-> dateString.s, y |-> y, sec |-> toNumberOrNull(Cell(row, secIndex))]
        ELSE Null

\* the callback of rows.map, lines 119-135: a point, or null
PointOf(row, machine, headers) ==
    LET dateString == Cell(row, 0)
        y == toNumberOrNull(Cell(row, machine.index))
        secIndex == machine.index + 1
    IN  IF Truthy(dateString) /\ y.t = "num"
        THEN [x |-> dateString.s, y |-> y,
              sec |-> IF secIndex < Len(headers)
                      THEN toNumberOrNull(Cell(row, secIndex))
                      ELSE Null]
        ELSE Null

\* the callback of machineColumns.map, lines 112-138
LineOf(machine, headers, rows) ==
    [key |-> StripLbs(machine.name),
     values |-> SelectSeq([i \in 1..Len(rows) |-> PointOf(rows[i], machine, headers)],
                          LAMBDA p : p # Null),
     isAverage |-> FALSE]

\* lines 112-139: one line per machine column, those without a point dropped
lines(data) ==
    LET headers == data[1]
        rows == Tail(data)
        cols == machineColumns(headers)
    IN  SelectSeq([i \in 1..Len(cols) |-> LineOf(cols[i], headers, rows)],
                  LAMBDA line : line.values # <<>>)

(***************************************************************************)
(* a.localeCompare(b, 'en', { numeric: true }): -1, 0 or 1.  Primary       *)
(* level first (space before digits before letters, letters without case,  *)
(* a run of digits by its numeric value), then case (lower before upper).  *)
(***************************************************************************)
PrimaryWeight(c) ==
    IF c = " " THEN 1
    ELSE IF IsDigit(c) THEN 10 + DigitVal(c)
    ELSE IF CharTable[c].letter > 0 THEN 100 + CharTable[c].letter
    ELSE 2

RECURSIVE PrimaryCompare(_, _)
PrimaryCompare(a, b) ==
    IF a = <<>> /\ b = <<>> THEN 0
    ELSE IF a = <<>> THEN -1
    ELSE IF b = <<>> THEN 1
    ELSE IF IsDigit(Head(a)) /\ IsDigit(Head(b))
    THEN LET da == TakeDigits(a)
             db == TakeDigits(b)
         IN  IF DigitsVal(da) < DigitsVal(db) THEN -1
             ELSE IF DigitsVal(da) > DigitsVal(db) THEN 1
             ELSE PrimaryCompare(SubSeq(a, Len(da) + 1, Len(a)),
                                 SubSeq(b, Len(db) + 1, Len(b)))
    ELSE IF PrimaryWeight(Head(a)) < PrimaryWeight(Head(b)) THEN -1
    ELSE IF PrimaryWeight(Head(a)) > PrimaryWeight(Head(b)) THEN 1
    ELSE PrimaryCompare(Tail(a), Tail(b))

RECURSIVE CaseCompare(_, _)
\* for texts equal at the primary level: the first difference of case decides
CaseCompare(a, b) ==
    IF a = <<>> \/ b = <<>> THEN 0
    ELSE IF Head(a) = Head(b) THEN CaseCompare(Tail(a), Tail(b))
    ELSE IF ToLower(Head(a)) = Head(a) /\ ToUpper(Head(b)) = Head(b)
            /\ ToLower(Head(b)) = Head(a) THEN -1
    ELSE IF ToUpper(Head(a)) = Head(a) /\ ToLower(Head(b)) = Head(b)
            /\ ToLower(Head(a)) = Head(b) THEN 1
    ELSE CaseCompare(Tail(a), Tail(b))

localeCompare(a, b) ==
    IF PrimaryCompare(a, b) # 0 THEN PrimaryCompare(a, b) ELSE CaseCompare(a, b)

RECURSIVE InsertByKey(_, _, _)
\* index j put into the sorted index list ord, after every index that does not
\* compare greater (Array.prototype.sort is stable)
InsertByKey(keys, j, ord) ==
    IF ord = <<>> THEN <<j>>
    ELSE IF localeCompare(keys[Head(ord)], keys[j]) <= 0
    THEN <<Head(ord)>> \o InsertByKey(keys, j, Tail(ord))
    ELSE <<j>> \o ord

\* SortIndices without the sort: the keys stay in column order
SortIndices_positional(keys, n) == [i \in 1..n |-> i]

RECURSIVE SortIndices(_, _)
\* the indices 1..n of keys in the order .sort(localeCompare) puts them
SortIndices(keys, n) ==
    IF n = 0 THEN <<>> ELSE InsertByKey(keys, n, SortIndices(keys, n - 1))

KeysOf(ls) == [i \in 1..Len(ls) |-> ls[i].key]

\* lines 144-146
sortedMachineKeys(ls) ==
    LET keys == KeysOf(ls)
        ord == SortIndices(keys, Len(keys))
    IN  [i \in 1..Len(keys) |-> keys[ord[i]]]

(***************************************************************************)
(* Colors (lines 7-17, 141-160, 214-235).  A color is the triple the code  *)
(* formats as hsl(a, b%, c%); AVERAGE_COLOR is rgb(0, 0, 0).               *)
(***************************************************************************)
HSL(h, s, l) == [kind |-> "hsl", a |-> h, b |-> s, c |-> l]
AVERAGE_COLOR == [kind |-> "rgb", a |-> 0, b |-> 0, c |-> 0]

\* GROUP_COLORS[group] || GROUP_COLORS['DEFAULT']
GROUP_COLORS(group) ==
    CASE group = "A" -> HSL(205, 70, 50)
      [] group = "B" -> HSL(160, 70, 45)
      [] group = "C" -> HSL(350, 75, 55)
      [] group = "D" -> HSL(35, 85, 50)
      [] group = "F" -> HSL(280, 60, 60)
      [] group = "G" -> HSL(50, 80, 50)
      [] OTHER -> HSL(0, 0, 50)

LightnessStep == 8
MinLightness == 20
MaxLightness == 85

\* key.charAt(0).toUpperCase()
GroupOf(key) == IF key = <<>> THEN "" ELSE ToUpper(key[1])

\* groupCounts.get(group) || 0
CountIn(groupCounts, group) ==
    IF group \in DOMAIN groupCounts THEN groupCounts[group] ELSE 0

Max(a, b) == IF a >= b THEN a ELSE b
Min(a, b) == IF a <= b THEN a ELSE b

\* lightnessShift with the signs exchanged
lightnessShift_swapped(countInGroup) ==
    (IF countInGroup % 2 = 1 THEN -1 ELSE 1) * ((countInGroup + 1) \div 2) * LightnessStep

\* line 231: (countInGroup % 2 === 1 ? 1 : -1) * Math.ceil(countInGroup / 2) * 8
lightnessShift(countInGroup) ==
    (IF countInGroup % 2 = 1 THEN 1 ELSE -1) * ((countInGroup + 1) \div 2) * LightnessStep

\* line 232
newLightness(lightness, countInGroup) ==
    Max(MinLightness, Min(MaxLightness, lightness + lightnessShift(countInGroup)))

\* lines 214-235: the color returned, and groupCounts as the call leaves it
getColorForMachine(key, groupCounts) ==
    LET group == GroupOf(key)
        baseColor == GROUP_COLORS(group)
        countInGroup == CountIn(groupCounts, group)
    IN  [color |-> IF countInGroup = 0
                   THEN HSL(baseColor.a, baseColor.b, baseColor.c)
                   ELSE HSL(baseColor.a, baseColor.b,
                            newLightness(baseColor.c, countInGroup)),
         groupCounts |-> [g \in DOMAIN groupCounts \cup {group} |->
                            IF g = group THEN countInGroup + 1 ELSE groupCounts[g]]]

RECURSIVE DeriveColors(_, _, _)
\* lines 152-154: sortedMachineKeys.forEach, from the state st of the two maps
DeriveColors(keys, i, st) ==
    IF i > Len(keys) THEN st
    ELSE LET got == getColorForMachine(keys[i], st.groupCounts)
         IN  DeriveColors(keys, i + 1,
                [groupCounts |-> got.groupCounts,
                 machineColorsMap |->
                    [k \in DOMAIN st.machineColorsMap \cup {keys[i]} |->
                        IF k = keys[i] THEN got.color ELSE st.machineColorsMap[k]]])

\* lines 148-154
machineColorsMap(ls) ==
    DeriveColors(sortedMachineKeys(ls), 1,
                 [groupCounts |-> <<>>, machineColorsMap |-> <<>>]).machineColorsMap

\* lines 157-159
coloredLines(ls) ==
    LET map == machineColorsMap(ls)
    IN  [i \in 1..Len(ls) |->
            [key |-> ls[i].key, values |-> ls[i].values, isAverage |-> FALSE,
             color |-> map[ls[i].key]]]

(***************************************************************************)
(* The Average line (lines 162-194).                                       *)
(***************************************************************************)
RECURSIVE Flatten(_)
\* the points of the lines in the order lines.forEach / values.forEach visits them
Flatten(ls) == IF ls = <<>> THEN <<>> ELSE Head(ls).values \o Flatten(Tail(ls))

\* addToTotals with the count of a date left at 1 when further points arrive
addToTotals_noCount(dailyTotals, point) ==
    IF \E i \in 1..Len(dailyTotals) : dailyTotals[i].date = point.x
    THEN [i \in 1..Len(dailyTotals) |->
            IF dailyTotals[i].date = point.x
            THEN [date |-> point.x,
                  totalWeight |-> NumAdd(dailyTotals[i].totalWeight, point.y),
                  count |-> dailyTotals[i].count]
            ELSE dailyTotals[i]]
    ELSE Append(dailyTotals,
                [date |-> point.x, totalWeight |-> NumAdd(Num(0, 1), point.y),
                 count |-> 1])

\* lines 165-171: one visit of the inner forEach.  dailyTotals is a Map: its
\* entries keep the order of first insertion.
addToTotals(dailyTotals, point) ==
    IF \E i \in 1..Len(dailyTotals) : dailyTotals[i].date = point.x
    THEN [i \in 1..Len(dailyTotals) |->
            IF dailyTotals[i].date = point.x
            THEN [date |-> point.x,
                  totalWeight |-> NumAdd(dailyTotals[i].totalWeight, point.y),
                  count |-> dailyTotals[i].count + 1]
            ELSE dailyTotals[i]]
    ELSE Append(dailyTotals,
                [date |-> point.x, totalWeight |-> NumAdd(Num(0, 1), point.y),
                 count |-> 1])

RECURSIVE DailyTotals(_, _)
DailyTotals(points, dailyTotals) ==
    IF points = <<>> THEN dailyTotals
    ELSE DailyTotals(Tail(points), addToTotals(dailyTotals, Head(points)))

\* moment(x, "DD.MM.YYYY").toDate() of a well-formed date text, as the day count
\* YYYYMMDD: the same order as the milliseconds the code subtracts
DateValue(x) ==
    DigitsVal(SubSeq(x, 7, 10)) * 10000 + DigitsVal(SubSeq(x, 4, 5)) * 100
        + DigitsVal(SubSeq(x, 1, 2))

RECURSIVE InsertByDate(_, _)
InsertByDate(p, sorted) ==
    IF sorted = <<>> THEN <<p>>
    ELSE IF DateValue(Head(sorted).x) - DateValue(p.x) <= 0
    THEN <<Head(sorted)>> \o InsertByDate(p, Tail(sorted))
    ELSE <<p>> \o sorted

RECURSIVE SortByDate(_)
\* line 184
SortByDate(ps) ==
    IF ps = <<>> THEN <<>>
    ELSE InsertByDate(ps[Len(ps)], SortByDate(SubSeq(ps, 1, Len(ps) - 1)))

\* lines 162-184
averageValues(ls) ==
    LET dailyTotals == DailyTotals(Flatten(ls), <<>>)
    IN  SortByDate([i \in 1..Len(dailyTotals) |->
                      [x |-> dailyTotals[i].date,
                       y |-> NumDiv(dailyTotals[i].totalWeight, dailyTotals[i].count)]])

AverageKey == <<"A", "v", "e", "r", "a", "g", "e">>

\* lines 90-202: the value transform stores in chartData
processed(data) ==
    LET ls == coloredLines(lines(data))
        avg == averageValues(ls)
    IN  (IF avg # <<>>
         THEN <<[key |-> AverageKey, values |-> avg, isAverage |-> TRUE,
                 color |-> AVERAGE_COLOR]>>
         ELSE <<>>) \o ls

(***************************************************************************)
(* drawGraph (lines 237-256): the array bound to the chart.                *)
(***************************************************************************)
\* JSON.parse(JSON.stringify(sourceData)), line 239: every series and point rebuilt
jsonCopy(sourceData) ==
    [i \in 1..Len(sourceData) |->
        [key |-> sourceData[i].key,
         values |-> [j \in 1..Len(sourceData[i].values) |-> sourceData[i].values[j]],
         isAverage |-> sourceData[i].isAverage,
         color |-> sourceData[i].color]]

\* line 247
sortedLines(machineLines) ==
    LET ord == SortIndices(KeysOf(machineLines), Len(machineLines))
    IN  [i \in 1..Len(machineLines) |-> machineLines[ord[i]]]

\* drawGraph sorting whatever the checkbox says
drawGraph_alwaysSorted(sourceData, isGrouped) ==
    LET valueLines == jsonCopy(sourceData)
        averages == SelectSeq(valueLines, LAMBDA d : d.isAverage)
        machineLines == SelectSeq(valueLines, LAMBDA d : ~d.isAverage)
    IN  (IF averages # <<>> THEN <<averages[1]>> ELSE <<>>) \o sortedLines(machineLines)

drawGraph(sourceData, isGrouped) ==
    LET valueLines == jsonCopy(sourceData)
        averages == SelectSeq(valueLines, LAMBDA d : d.isAverage)
        machineLines == SelectSeq(valueLines, LAMBDA d : ~d.isAverage)
    IN  (IF averages # <<>> THEN <<averages[1]>> ELSE <<>>)
        \o (IF isGrouped THEN sortedLines(machineLines) ELSE machineLines)

\* sourceAfterDraw had drawGraph arranged the array it was given, not a copy
sourceAfterDraw_inPlace(sourceData, isGrouped) == drawGraph(sourceData, isGrouped)

\* what drawGraph leaves in the array it was given: it works on the copy of line 239
sourceAfterDraw(sourceData, isGrouped) == sourceData

(***************************************************************************)
(* The parse completion callback (lines 72-79) with transform (84-206):    *)
(* the state it leaves, from the results object and the state before.      *)
(***************************************************************************)
\* complete with chartData emptied before the length check of transform
complete_clearsFirst(results, held, shown, isGrouped) ==
    IF results.errors
    THEN [chartData |-> held, rendered |-> shown, drawn |-> FALSE, notice |-> "parse"]
    ELSE IF Len(results.data) < 2
    THEN [chartData |-> <<>>, rendered |-> shown, drawn |-> FALSE, notice |-> "empty"]
    ELSE LET cd == processed(results.data)
         IN  [chartData |-> sourceAfterDraw(cd, isGrouped),
              rendered |-> drawGraph(cd, isGrouped),
              drawn |-> TRUE, notice |-> "none"]

complete(results, held, shown, isGrouped) ==
    IF results.errors
    THEN [chartData |-> held, rendered |-> shown, drawn |-> FALSE, notice |-> "parse"]
    ELSE IF Len(results.data) < 2
    THEN [chartData |-> held, rendered |-> shown, drawn |-> FALSE, notice |-> "empty"]
    ELSE LET cd == processed(results.data)
         IN  [chartData |-> sourceAfterDraw(cd, isGrouped),
              rendered |-> drawGraph(cd, isGrouped),
              drawn |-> TRUE, notice |-> "none"]

(***************************************************************************)
(* The inputs: header rows, data rows and tables of the two header         *)
(* conventions the code comments name (blank-headed and named duration     *)
(* columns), with missing, unparseable and unit-carrying cells, ragged     *)
(* rows, and one-group tables wide enough for the lightness clamp.         *)
(***************************************************************************)
tDatum == <<"D", "a", "t", "u", "m">>
tA2 == <<"A", "2">>
tA3 == <<"A", "3">>
tA10 == <<"A", "1", "0">>
tB1 == <<"B", "1">>
tB1lbs == <<"B", "1", " ", "l", "b", "s">>
tsec == <<"s", "e", "c">>
tB1sec == <<"B", "1", " ", "s", "e", "c">>
tA2lbs == <<"A", "2", " ", "l", "b", "s">>
tA2sec == <<"A", "2", " ", "s", "e", "c">>
tX1lbs == <<"X", "1", " ", "l", "b", "s">>
ta5 == <<"a", "5">>
tA2padded == <<" ", "A", "2", " ">>
tC1LBS == <<"C", "1", " ", "L", "B", "S">>

Date1 == <<"0", "2", ".", "0", "1", ".", "2", "0", "2", "4">>
Date2 == <<"1", "5", ".", "1", "2", ".", "2", "0", "2", "3">>

ExampleHeaders == <<tDatum, tA3, <<>>, tB1lbs, tsec>>

HeaderRows ==
    { ExampleHeaders,
      <<tDatum, tA10, <<>>, tA2, <<>>>>,
      <<tDatum, tB1, tA2, tA10>>,
      <<tDatum, tX1lbs, <<>>, ta5, <<>>>>,
      <<tDatum, tA2padded, <<>>, tC1LBS, <<>>>>,
      <<tDatum, tA2, <<>>, <<>>, tB1>>,
      <<tDatum, tB1lbs, tB1sec, tA2lbs, tA2sec>>,
      <<tDatum>> }

CellsFull == <<<<"1", "0", "0">>, <<"9", "0", " ", "s">>, <<"1", "2", ",", "5">>, <<"1", "2", "0">>, <<"5", "0">>>>
CellsSparse == <<<<>>, <<>>, <<"2", "0", "0">>, <<"1", "3", "0">>>>
CellsOdd == <<<<"n", "/", "a">>, <<"9", "5">>, <<"1", ".", "2", "3", "4", ",", "5", "6">>, <<>>, <<"7">>>>

CellVectors == {CellsFull, CellsSparse, CellsOdd}
DateCells == {<<>>, Date1, Date2}

\* a data row under a header row of w cells: a date cell, then the cells of v, the
\* row cut at the header's width (a shorter v is a ragged row)
Row(d, v, w) == <<d>> \o SubSeq(v, 1, Min(Len(v), w - 1))

RowsFor(w) == {Row(d, v, w) : d \in DateCells, v \in CellVectors}

SeqsUpTo(S, n) == UNION {[1..k -> S] : k \in 0..n}

Tables ==
    {<<>>} \cup
    UNION {{<<h>> \o rs : rs \in SeqsUpTo(RowsFor(Len(h)), MaxRows)} : h \in HeaderRows}

\* the decimal text of k < 100
NumText(k) ==
    IF k < 10 THEN <<Digits[k + 1]>> ELSE <<Digits[(k \div 10) + 1], Digits[(k % 10) + 1]>>

GroupLetters == {"A", "B", "C", "D", "F", "G", "X"}

\* Datum;g1;g2;...;gn (or gn;...;g1) with one row that has a value for every machine
WideTable(g, n, descending) ==
    << <<tDatum>> \o [i \in 1..n |-> <<g>> \o NumText(IF descending THEN n + 1 - i ELSE i)],
       <<Date1>> \o [i \in 1..n |-> <<"1", "0", "0">>] >>

WideTables ==
    {WideTable(g, n, o) : g \in GroupLetters, n \in 1..MaxGroup, o \in BOOLEAN}

ErrorTables == {<<>>, <<ExampleHeaders, Row(Date1, CellsFull, 5)>>}

TransformInputs ==
    {[errors |-> FALSE, data |-> t] : t \in Tables \cup WideTables}
    \cup {[errors |-> TRUE, data |-> t] : t \in ErrorTables}

SessionHeaders ==
    { ExampleHeaders, <<tDatum, tA10, <<>>, tA2, <<>>>>, <<tDatum, tB1, tA2, tA10>> }

SessionRowsFor(w) == {Row(Date1, CellsFull, w), Row(Date2, CellsOdd, w), Row(Date1, CellsSparse, w)}

SessionTables ==
    {<<>>} \cup
    UNION {{<<h>> \o rs : rs \in SeqsUpTo(SessionRowsFor(Len(h)), MaxSessionRows)}
           : h \in SessionHeaders}

SessionInputs ==
    {[errors |-> FALSE, data |-> t] : t \in SessionTables}
    \cup {[errors |-> TRUE, data |-> t] : t \in ErrorTables}

NormAlphabet == {"1", "5", ",", ".", " ", "l"}

tThousands == <<"1", ".", "2", "3", "4", ",", "5", "6">>
tAnglo == <<"1", ",", "2", "3", "4", ".", "5", "6">>

NormInputs ==
    {Null, Undefined, Num(7, 1)}
    \cup {Str(s) : s \in SeqsUpTo(NormAlphabet, MaxLen)}
    \cup {Str(s) : s \in {tThousands, tAnglo} \cup {CellsFull[i] : i \in 1..5}}

(***************************************************************************)
(* The state machine.                                                      *)
(***************************************************************************)
Pending == [t |-> "pending"]
NoInput == [errors |-> FALSE, data |-> <<>>]

Init ==
    /\ chartData = <<>>
    /\ checked = FALSE
    /\ rendered = <<>>
    /\ drawn = FALSE
    /\ notice = "none"
    /\ event = "init"
    /\ input = NoInput
    /\ val = Null
    /\ result = Null

\* Papa.parse completes on results: the callback of lines 72-79 and transform
Completes(results) ==
    \E out \in {complete(results, chartData, rendered, checked)} :
        /\ chartData' = out.chartData
        /\ rendered' = out.rendered
        /\ drawn' = out.drawn
        /\ notice' = out.notice
        /\ event' = "load"
        /\ input' = results
        /\ UNCHANGED <<checked, val, result>>

\* a file is selected and its parse completes (lines 36-41, 64-82)
Load == \E results \in SessionInputs : Completes(results)

\* the change handler of the checkbox, lines 29-32
Toggle ==
    /\ checked' = ~checked
    /\ rendered' = drawGraph(chartData, checked')
    /\ chartData' = sourceAfterDraw(chartData, checked')
    /\ drawn' = TRUE
    /\ notice' = "none"
    /\ event' = "toggle"
    /\ UNCHANGED <<input, val, result>>

Next == Load \/ Toggle

Spec == Init /\ [][Next]_vars

\* one parse completion on each of the generated tables
InitTransform ==
    /\ input \in TransformInputs
    /\ chartData = <<>>
    /\ checked = FALSE
    /\ rendered = <<>>
    /\ drawn = FALSE
    /\ notice = "none"
    /\ event = "init"
    /\ val = Null
    /\ result = Null

TransformStep == event = "init" /\ Completes(input)

SpecTransform == InitTransform /\ [][TransformStep]_vars

\* one call of toNumberOrNull on each of the generated values
InitNormalize ==
    /\ val \in NormInputs
    /\ result = Pending
    /\ chartData = <<>>
    /\ checked = FALSE
    /\ rendered = <<>>
    /\ drawn = FALSE
    /\ notice = "none"
    /\ event = "init"
    /\ input = NoInput

Normalize ==
    /\ result = Pending
    /\ result' = toNumberOrNull(val)
    /\ UNCHANGED <<chartData, checked, rendered, drawn, notice, event, input, val>>

SpecNormalize == InitNormalize /\ [][Normalize]_vars

(***************************************************************************)
(* Vocabulary of the properties.                                           *)
(***************************************************************************)
\* the last event was a parse completion that ran the whole pipeline
Loaded == event = "load" /\ notice = "none"

MachinesOf(series) == SelectSeq(series, LAMBDA d : ~d.isAverage)
AveragesOf(series) == SelectSeq(series, LAMBDA d : d.isAverage)
KeySet(series) == {series[i].key : i \in 1..Len(series)}
Range(f) == {f[i] : i \in DOMAIN f}

RECURSIVE SumY(_)
SumY(points) ==
    IF points = <<>> THEN Num(0, 1) ELSE NumAdd(Head(points).y, SumY(Tail(points)))

\* C1: the Average series has exactly one point per distinct date of the retained
\* machine series, its value is the sum of the machine values of that date divided
\* by the number of machine points of that date, and there is no Average series when
\* no machine has a point.
C1_AverageIsMeanOfRecorded ==
    Loaded =>
        LET points == Flatten(MachinesOf(chartData))
            dates == {points[i].x : i \in 1..Len(points)}
            averages == AveragesOf(chartData)
        IN  IF dates = {} THEN averages = <<>>
            ELSE /\ Len(averages) = 1
                 /\ Len(averages[1].values) = Cardinality(dates)
                 /\ {averages[1].values[i].x : i \in 1..Len(averages[1].values)} = dates
                 /\ \A i \in 1..Len(averages[1].values) :
                        LET sameDate == SelectSeq(points,
                                LAMBDA p : p.x = averages[1].values[i].x)
                        IN  averages[1].values[i].y = NumDiv(SumY(sameDate), Len(sameDate))

\* C1 witness: three machine series are retained and on some date only two of them
\* have a point, so the mean is over two values
C1_Witness ==
    /\ Loaded
    /\ Len(MachinesOf(chartData)) = 3
    /\ AveragesOf(chartData) # <<>>
    /\ \E d \in Range([i \in 1..Len(AveragesOf(chartData)[1].values) |->
                        AveragesOf(chartData)[1].values[i].x]) :
            Len(SelectSeq(Flatten(MachinesOf(chartData)), LAMBDA p : p.x = d)) = 2

\* what section 4.1 of the specification describes for a text: every character but
\* digits, comma and period dropped, then the periods dropped when a comma occurs
\* too, then the comma read as the decimal point
DescribedNormalize(text) ==
    LET s == Keep(text, Range(Digits) \cup {".", ","})
        both == "," \in Range(s) /\ "." \in Range(s)
        t == IF both THEN Keep(s, Range(Digits) \cup {","}) ELSE s
        n == IF t = <<>> THEN NaN ELSE parseFloat(ReplaceFirst(t, ",", "."))
    IN  IF n.t = "nan" THEN Null ELSE n

\* C2: on a text with both a comma and a period toNumberOrNull drops the period as a
\* thousands separator and reads the comma as the decimal separator, so
\* "1.234,56" gives 1234.56; with only a comma the comma is the decimal separator,
\* so "12,5" gives 12.5.
C2_PeriodIsThousandsSeparator ==
    (result # Pending /\ val.t = "str" /\ "," \in Range(val.s)) =>
        /\ result = DescribedNormalize(val.s)
        /\ val.s = tThousands => result = Num(123456, 100)
        /\ val.s = CellsFull[3] => result = Num(125, 10)

RECURSIVE Contains(_, _)
\* text has sub as a substring, case ignored
Contains(text, sub) ==
    IF Len(text) < Len(sub) THEN FALSE
    ELSE IF \A i \in 1..Len(sub) : ToLower(text[i]) = ToLower(sub[i]) THEN TRUE
    ELSE Contains(Tail(text), sub)

\* C3: the header row Datum, A3, blank, B1 lbs, sec gives exactly the two machine
\* columns A3 (duration column 2) and B1 (duration column 4, "lbs" stripped), and no
\* column whose header is blank or carries the duration marker "sec" is started as
\* a machine column or becomes an output series.
C3_DurationColumnsAreNotMachines ==
    Loaded =>
        LET cols == machineColumns(input.data[1])
        IN  /\ input.data[1] = ExampleHeaders =>
                /\ Len(cols) = 2
                /\ StripLbs(cols[1].name) = tA3 /\ cols[1].index + 1 = 2
                /\ StripLbs(cols[2].name) = tB1 /\ cols[2].index + 1 = 4
            /\ \A i \in 1..Len(cols) :
                    /\ Trim(At(input.data[1], cols[i].index)) # <<>>
                    /\ ~Contains(cols[i].name, tsec)
            /\ \A i \in 1..Len(chartData) :
                    ~chartData[i].isAverage => ~Contains(chartData[i].key, tsec)

\* the column permutations tried on a table of n value columns: the rotations, the
\* reversal and the swaps of two neighbours (for n <= 3 these are all permutations)
ColumnPerms(n) ==
    {[i \in 1..n |-> ((i + k - 1) % n) + 1] : k \in 0..(n - 1)}
    \cup {[i \in 1..n |-> n + 1 - i]}
    \cup {[i \in 1..n |-> IF i = k THEN k + 1 ELSE IF i = k + 1 THEN k ELSE i]
          : k \in 1..(n - 1)}

\* the table with value column i taken from column p[i] (the date column stays; a
\* cell missing from a ragged row is an empty cell)
PermuteColumns(data, p) ==
    [r \in 1..Len(data) |->
        <<data[r][1]>> \o
        [i \in 1..(Len(data[1]) - 1) |->
            IF p[i] + 1 <= Len(data[r]) THEN data[r][p[i] + 1] ELSE <<>>]]

C7_PointIffDateAndValue ==
    (event = "load" /\ ~input.errors /\ Len(input.data) >= 2) =>
        /\ notice = "none"
        /\ LET headers == input.data[1]
               rows == Tail(input.data)
               cols == machineColumns(headers)
           IN  \A c \in 1..Len(cols) :
                    LET good == SelectSeq(rows, LAMBDA row :
                                    /\ row[1] # <<>>
                                    /\ toNumberOrNull(Cell(row, cols[c].index)).t = "num")
                        series == SelectSeq(MachinesOf(chartData),
                                    LAMBDA d : d.key = StripLbs(cols[c].name))
                    IN  IF good = <<>> THEN series = <<>>
                        ELSE /\ Len(series) = 1
                             /\ Len(series[1].values) = Len(good)
                             /\ \A i \in 1..Len(good) :
                                    /\ series[1].values[i].x = good[i][1]
                                    /\ series[1].values[i].y =
                                          toNumberOrNull(Cell(good[i], cols[c].index))

\* C7 witness: a row with a date, a non-empty unparseable value for one machine and a
\* point for another machine
C7_Witness ==
    /\ Loaded
    /\ \E r \in 2..Len(input.data) :
        \E x, y \in Range(machineColumns(input.data[1])) :
            /\ input.data[r][1] # <<>>
            /\ Truthy(Cell(input.data[r], x.index))
            /\ toNumberOrNull(Cell(input.data[r], x.index)) = Null
            /\ \E i \in 1..Len(chartData) :
                    /\ chartData[i].key = StripLbs(y.name)
                    /\ \E k \in 1..Len(chartData[i].values) :
                            /\ chartData[i].values[k].x = input.data[r][1]
                            /\ chartData[i].values[k].y =
                                  toNumberOrNull(Cell(input.data[r], y.index))

\* the in-group rank of key among the keys of series, in sorted key order
RankOf(key, series) ==
    Cardinality({j \in 1..Len(series) :
                    /\ GroupOf(series[j].key) = GroupOf(key)
                    /\ localeCompare(series[j].key, key) < 0})

\* C9: a machine's color has the hue and saturation of its group's base color (grey
\* for an unknown letter); rank 0 of the group has the base lightness, an odd rank r
\* the lightness clamp(base + 8 * ceil(r / 2), 20, 85) and an even rank r >= 2
\* clamp(base - 8 * ceil(r / 2), 20, 85); every lightness lies in 20..85.
C9_LightnessByRank ==
    Loaded =>
        \A i \in 1..Len(MachinesOf(chartData)) :
            LET m == MachinesOf(chartData)[i]
                base == GROUP_COLORS(GroupOf(m.key))
                r == RankOf(m.key, MachinesOf(chartData))
                shifted == IF r % 2 = 1 THEN base.c + 8 * ((r + 1) \div 2)
                           ELSE base.c - 8 * ((r + 1) \div 2)
                expected == IF r = 0 THEN base.c
                            ELSE IF shifted < 20 THEN 20
                            ELSE IF shifted > 85 THEN 85 ELSE shifted
            IN  /\ m.color = HSL(base.a, base.b, expected)
                /\ m.color.c \in 20..85
                /\ (GroupOf(m.key) \notin {"A", "B", "C", "D", "F", "G"}) =>
                        (m.color.a = 0 /\ m.color.b = 0)

\* C9 witness: a machine of even rank whose shifted lightness falls below 20 and is
\* clamped, and one of odd rank in the same table
C9_Witness ==
    /\ Loaded
    /\ \E i, j \in 1..Len(MachinesOf(chartData)) :
        LET m == MachinesOf(chartData)[i]
            o == MachinesOf(chartData)[j]
            r == RankOf(m.key, MachinesOf(chartData))
        IN  /\ r >= 2 /\ r % 2 = 0
            /\ GROUP_COLORS(GroupOf(m.key)).c - 8 * (r \div 2) < 20
            /\ m.color.c = 20
            /\ RankOf(o.key, MachinesOf(chartData)) % 2 = 1

\* C10: within one loaded file two machines of the same group with distinct keys
\* have distinct colors, whatever the size of the group.
C10_DistinctColorsInGroup ==
    Loaded =>
        \A i, j \in 1..Len(MachinesOf(chartData)) :
            LET a == MachinesOf(chartData)[i]
                b == MachinesOf(chartData)[j]
            IN  (a.key # b.key /\ GroupOf(a.key) = GroupOf(b.key)) => a.color # b.color

\* the series of a and of b are the same series (key, points, color), in any order
SameSeries(a, b) ==
    /\ Len(a) = Len(b)
    /\ \A i \in 1..Len(a) : \E j \in 1..Len(b) : a[i] = b[j]
    /\ \A j \in 1..Len(b) : \E i \in 1..Len(a) : a[i] = b[j]

\* C5: a toggle of the grouping checkbox leaves the held series (keys, points, colors,
\* order) unchanged and redraws exactly the held series, each with the color it
\* holds since the load; so do two toggles in a row, which draw the same series.
C5_ToggleKeepsDataAndColors ==
    [][event' = "toggle" =>
            /\ chartData' = chartData
            /\ drawn'
            /\ SameSeries(rendered', chartData)
            /\ (event = "toggle" => SameSeries(rendered', rendered))]_vars

\* C5 witness: after a toggle the chart shows the held series in another order than
\* they are held
C5_Witness ==
    /\ event = "toggle"
    /\ checked
    /\ chartData # <<>>
    /\ rendered # chartData
    /\ SameSeries(rendered, chartData)

\* the position of the series with this key, 0 if there is none
PositionOf(key, series) ==
    IF \E i \in 1..Len(series) : series[i].key = key
    THEN CHOOSE i \in 1..Len(series) : series[i].key = key
    ELSE 0

\* C6: what the renderer was last given is the Average series first (if there is
\* one), then the machine series: in the column order of the source file while
\* group mode is off, in numeric-aware key order (A2 before A10) while it is on.
C6_RenderedOrder ==
    \A held \in {MachinesOf(chartData)} :
    \A shown \in {MachinesOf(rendered)} :
        /\ rendered = AveragesOf(chartData) \o shown
        /\ Len(AveragesOf(chartData)) <= 1
        /\ ~checked => shown = held
        /\ checked =>
            /\ SameSeries(shown, held)
            /\ \A i, j \in 1..Len(shown) :
                    i < j => localeCompare(shown[i].key, shown[j].key) <= 0
            /\ (PositionOf(tA2, shown) > 0 /\ PositionOf(tA10, shown) > 0) =>
                    PositionOf(tA2, shown) < PositionOf(tA10, shown)
        /\ Loaded =>
            \A cols \in {machineColumns(input.data[1])} :
                KeysOf(held) =
                    SelectSeq([i \in 1..Len(cols) |-> StripLbs(cols[i].name)],
                              LAMBDA k : k \in KeySet(held))

\* C6 witness: group mode was turned on and off again (the box is unchecked after a
\* toggle) and the chart shows A10 before A2 after the Average series, as the file
\* has them
C6_Witness ==
    /\ event = "toggle"
    /\ ~checked
    /\ Len(rendered) >= 3
    /\ rendered[1].isAverage
    /\ PositionOf(tA10, rendered) > 0
    /\ PositionOf(tA10, rendered) < PositionOf(tA2, rendered)

\* C8: a parse completion with tokenizer errors, or with a table of fewer than 2
\* rows, shows a notice, draws nothing and leaves the held series and what the chart
\* shows exactly as they were.
C8_FailedLoadKeepsState ==
    [][(event' = "load" /\ (input'.errors \/ Len(input'.data) < 2)) =>
            /\ notice' \in {"parse", "empty"}
            /\ ~drawn'
            /\ chartData' = chartData
            /\ rendered' = rendered]_vars

\* C8 witness: a load of a header-only table has failed while series of an earlier
\* load are held
C8_Witness ==
    /\ event = "load"
    /\ ~input.errors
    /\ Len(input.data) = 1
    /\ notice = "empty"
    /\ ~drawn
    /\ chartData # <<>>
    /\ rendered # <<>>

\* C11: a machine whose primary column is immediately followed by another machine's
\* primary column (a non-blank header without the duration marker "sec") has no
\* paired duration column, so every point of its series has an absent duration,
\* never the neighbouring machine's weight.
C11_DurationOnlyFromPairedColumn ==
    Loaded =>
        LET headers == input.data[1]
            cols == machineColumns(headers)
        IN  \A i \in 1..Len(cols) :
                (/\ cols[i].index + 1 < Len(headers)
                 /\ Trim(At(headers, cols[i].index + 1)) # <<>>
                 /\ ~Contains(At(headers, cols[i].index + 1), tsec)
                 /\ ~Contains(cols[i].name, tsec))
                => \A k \in 1..Len(chartData) :
                       (~chartData[k].isAverage
                        /\ chartData[k].key = StripLbs(cols[i].name))
                       => \A j \in 1..Len(chartData[k].values) :
                              chartData[k].values[j].sec = Null

====
